---- MODULE Spec2Model ----
(***************************************************************************)
(* Model of the solclash arena harness (apps/arena-harness) and of the     *)
(* starter program it evaluates (starter/program).                         *)
(*                                                                         *)
(* The harness reads newline-delimited JSON requests from stdin, keeps an  *)
(* optional HarnessState (sandbox context, program registry, compute-unit  *)
(* limit) and writes exactly one response line per request.  One action    *)
(* of the model is one iteration of the `while let Some(line)` loop of     *)
(* main(), handler included.                                               *)
(*                                                                         *)
(* Environment assumptions: stdout accepts every write (write_response     *)
(* never fails), and the external crates behave as documented (serde_json, *)
(* borsh, solana-program-test).                                            *)
(***************************************************************************)
EXTENDS Integers, Sequences, FiniteSets, TLC

VARIABLES
    state,        \* main.rs `state: Option<HarnessState>`
    next_unique,  \* process-wide counter behind Pubkey::new_unique()
    pc,           \* position of main(): "loop", or how the loop was left
    consumed,     \* history: for each line read, whether it was blank and its request_id
    stdout,       \* history: the request_id of each response written, in order
    last,         \* trace of the last loop iteration (request, response, stages reached)
    call          \* one application of a function of the program: name, input, result

vars == <<state, next_unique, pc, consumed, stdout, last, call>>

----------------------------------------------------------------------------
(* Bounds of the model *)

\* number of calls of lines.next_line() that return a line, in one run
MaxLines == 3

\* longest run of one char tried as a window id (64 is the length of a hex id)
MaxWindowIdLen == 65

\* longest output region handed to the decoder (OUTPUT_LEN is 20)
MaxRegionLen == 22

----------------------------------------------------------------------------
(* Program constants *)

OUTPUT_LEN == 20

DefaultComputeUnitLimit == 200000

\* Option::None of `state`
None == [none |-> TRUE]

NoStr == ""

----------------------------------------------------------------------------
(* abi.rs: the output record and its borsh layout *)

Byte == 0..255

\* EvalOutputV1::hold(err_code)
Hold(err_code) ==
    [version |-> 1, action_type |-> 0, order_qty |-> 0,
     err_code |-> err_code, reserved |-> [i \in 1..8 |-> 0]]

\* little-endian bytes of a non-negative integer, k bytes wide
RECURSIVE LE(_, _)
LE(n, k) == IF k = 0 THEN <<>> ELSE <<n % 256>> \o LE(n \div 256, k - 1)

\* value of little-endian bytes read as an unsigned integer
RECURSIVE UVal(_)
UVal(b) == IF Len(b) = 0 THEN 0 ELSE Head(b) + 256 * UVal(Tail(b))

Complement(b) == [i \in 1..Len(b) |-> 255 - b[i]]

\* i64 as 8 little-endian bytes, two's complement
EncodeI64(v) == IF v >= 0 THEN LE(v, 8) ELSE Complement(LE(-(v + 1), 8))

DecodeI64(b) == IF b[8] >= 128 THEN -(UVal(Complement(b))) - 1 ELSE UVal(b)

\* borsh::to_vec(&EvalOutputV1): version, action_type, order_qty, err_code, reserved
EncodeOutput(o) ==
    <<o.version, o.action_type>> \o EncodeI64(o.order_qty)
        \o LE(o.err_code, 2) \o o.reserved

\* mutant: bytes after the record are ignored
DecodeOutput_lenient(data) ==
    IF Len(data) < OUTPUT_LEN THEN [ok |-> FALSE, err |-> "Unexpected length of input"]
    ELSE [ok |-> TRUE,
          value |-> [version |-> data[1],
                     action_type |-> data[2],
                     order_qty |-> DecodeI64(SubSeq(data, 3, 10)),
                     err_code |-> UVal(SubSeq(data, 11, 12)),
                     reserved |-> SubSeq(data, 13, 20)]]

\* EvalOutputV1::try_from_slice: strict, every byte must be consumed
DecodeOutput(data) ==
    IF Len(data) < OUTPUT_LEN THEN [ok |-> FALSE, err |-> "Unexpected length of input"]
    ELSE IF Len(data) > OUTPUT_LEN THEN [ok |-> FALSE, err |-> "Not all bytes read"]
    ELSE [ok |-> TRUE,
          value |-> [version |-> data[1],
                     action_type |-> data[2],
                     order_qty |-> DecodeI64(SubSeq(data, 3, 10)),
                     err_code |-> UVal(SubSeq(data, 11, 12)),
                     reserved |-> SubSeq(data, 13, 20)]]

----------------------------------------------------------------------------
(* main.rs: host-side output validation *)

\* mutant: a zero quantity passes for buy and sell
validate_output_strict_sign(output) ==
    IF output.version # 1 THEN Hold(6)
    ELSE IF (output.action_type = 1 \/ output.action_type = 2) /\ output.order_qty < 0
         THEN Hold(6)
    ELSE output

\* fn validate_output(output: EvalOutputV1) -> EvalOutputV1
validate_output(output) ==
    IF output.version # 1 THEN Hold(6)
    ELSE IF (output.action_type = 1 \/ output.action_type = 2) /\ output.order_qty <= 0
         THEN Hold(6)
    ELSE output

----------------------------------------------------------------------------
(* protocol.rs: requests, responses, and the lines of the input stream *)

AgentIds == {"A", "B"}

\* so_path values an init may name; "missing.so" is not on disk
SoPaths == {"hold.so", "rogue.so", "missing.so"}

\* artifacts std::fs::copy can read
FilesOnDisk == {"hold.so", "rogue.so"}

\* artifacts with a `<name>-keypair.json` next to them
KeypairFiles == {"hold.so"}

\* request ids the orchestrator sends (0 is what an unparseable line is answered with)
RequestIds == {1, 2}

ProgramSpecs == [id : AgentIds, so_path : SoPaths]

\* `programs` of an init: no program, one program for agent "A", or the
\* template for agent "A" followed by any second program (another agent, the same agent
\* again, an artifact that is not on disk)
ProgramLists ==
    {<<>>} \cup {<<p>> : p \in {x \in ProgramSpecs : x.id = "A"}}
           \cup {<<p, q>> : p \in {x \in ProgramSpecs : x.id = "A" /\ x.so_path = "hold.so"},
                           q \in ProgramSpecs}

\* Option<u32> and Option<Pubkey>
Some(v) == [none |-> FALSE, val |-> v]

Nothing == [none |-> TRUE, val |-> 0]

NoLimit == Nothing

\* Option<u32> values of InitRequest.compute_unit_limit
ComputeUnitLimits == {NoLimit, Some(1000)}

\* the window id "w1"
W1 == <<119, 49>>

Bar1 == [open |-> 100, high |-> 101, low |-> 99, close |-> 100, volume |-> 10]

\* EvalInputJson; the fields not listed here (step_index, scales, balances,
\* margins) are copied verbatim by convert_input and read by nothing modelled
EvalInputs ==
    [version : {1}, window_id : {W1}, lookback_len : {1, 2}, ohlcv : {<<Bar1>>}]

NoInput == [version |-> 0, window_id |-> <<>>, lookback_len |-> 0, ohlcv |-> <<>>]

NoPrograms == <<>>

\* A line of stdin.  text = "blank": empty after trim; "garbage": not JSON;
\* "json": a JSON object, with its "type" member and whether the remaining
\* members deserialize into the variant's struct (fields_ok).
Line(text, type, fields_ok, request_id, programs, limit, agent_id, input) ==
    [text |-> text, type |-> type, fields_ok |-> fields_ok, request_id |-> request_id,
     programs |-> programs, compute_unit_limit |-> limit,
     agent_id |-> agent_id, input |-> input]

BlankLine == Line("blank", NoStr, FALSE, 0, NoPrograms, NoLimit, NoStr, NoInput)

GarbageLine == Line("garbage", NoStr, FALSE, 0, NoPrograms, NoLimit, NoStr, NoInput)

InitLine(id, programs, limit) ==
    Line("json", "init", TRUE, id, programs, limit, NoStr, NoInput)

EvalLine(id, agent, input) ==
    Line("json", "eval", TRUE, id, NoPrograms, NoLimit, agent, input)

ShutdownLine(id) ==
    Line("json", "shutdown", TRUE, id, NoPrograms, NoLimit, NoStr, NoInput)

\* JSON objects that are not requests: an unknown discriminator, a missing
\* discriminator, and known discriminators whose members do not deserialize
MalformedLines ==
    {GarbageLine,
     Line("json", "ping", TRUE, 1, NoPrograms, NoLimit, NoStr, NoInput),
     Line("json", NoStr, TRUE, 1, NoPrograms, NoLimit, NoStr, NoInput),
     Line("json", "eval", FALSE, 1, NoPrograms, NoLimit, "A", NoInput)}

\* #[serde(tag = "type")] enum Request: the renamed variants
RequestTypes == {"init", "eval", "shutdown"}

\* serde_json::from_str::<Request>(&line)
ParseRequest(line) ==
    IF line.text # "json" THEN [ok |-> FALSE, err |-> "expected value"]
    ELSE IF line.type = NoStr THEN [ok |-> FALSE, err |-> "missing field type"]
    ELSE IF line.type \notin RequestTypes THEN [ok |-> FALSE, err |-> "unknown variant"]
    ELSE IF ~line.fields_ok THEN [ok |-> FALSE, err |-> "invalid or missing field"]
    ELSE [ok |-> TRUE, err |-> NoStr]

\* mutant: blank lines are not skipped
IsBlank_never(line) == FALSE

\* line.trim().is_empty()
IsBlank(line) == line.text = "blank"

NoOutput == [version |-> 0, action_type |-> 0, order_qty |-> 0, err_code |-> 0]

Response(type, request_id, message, agent_id, status, output) ==
    [type |-> type, request_id |-> request_id, message |-> message,
     agent_id |-> agent_id, status |-> status, output |-> output]

NoMessage == <<NoStr, NoStr>>

\* Response::Ok(OkResponse { request_id })
OkResponse(request_id) == Response("ok", request_id, NoMessage, NoStr, NoStr, NoOutput)

\* Response::Error(ErrorResponse { request_id, message }); a message is the
\* pair <<fixed text, interpolated argument>>
ErrorResponse(request_id, message) ==
    Response("error", request_id, message, NoStr, NoStr, NoOutput)

\* Response::Result(ResultResponse { .. }) with EvalOutputJson (reserved is dropped)
ResultResponse(request_id, agent_id, output) ==
    Response("result", request_id, NoMessage, agent_id, "OK",
             [version |-> output.version, action_type |-> output.action_type,
              order_qty |-> output.order_qty, err_code |-> output.err_code])

NoResponse == Response("none", 0, NoMessage, NoStr, NoStr, NoOutput)

\* mutant: the message does not interpolate the agent id
ProgramNotFound_anonymous(agent_id) == <<"program not found: ", NoStr>>

\* error.rs: #[error("program not found: {0}")]
ProgramNotFound(agent_id) == <<"program not found: ", agent_id>>

\* error.rs: #[error("eval failed: {0}")]
EvalFailed(what) == <<"eval failed: ", what>>

----------------------------------------------------------------------------
(* starter/program: the template module *)

\* errors.rs: #[repr(u16)] pub enum ErrCode
ErrOk == 0

InvalidInstructionData == 1

InvalidInputVersion == 2

\* mutant: a bar-count mismatch is reported with the code of a bad version
InvalidLookbackLen_as_version == InvalidInputVersion

InvalidLookbackLen == 3

\* mutant: an undecodable input is reported with the code of a bad version
InputDeserFail_as_version == InvalidInputVersion

InputDeserFail == 4

PolicyErr == 5

OutputInvalid == 6

OutputSerFail == 7

\* borsh::to_vec(&EvalInputV1): fixed fields 91 bytes (1 + 32 + 4*4 + 3*8 +
\* 3*4 + 2, then the u32 length of ohlcv), 40 bytes per bar.  The region
\* content is kept as the record the bytes decode to.
BorshInput(input) ==
    [len |-> 91 + 40 * Len(input.ohlcv), wellformed |-> TRUE, value |-> input]

\* mutant: the policy fails
evaluate_failing(input) == [ok |-> FALSE, value |-> Hold(ErrOk)]

\* policy.rs: pub fn evaluate(_input) -> Result<EvalOutputV1, PolicyError>
evaluate(input) == [ok |-> TRUE, value |-> Hold(ErrOk)]

\* mutant: the module lets a zero quantity pass for buy and sell
program_validate_output_lenient(output) ==
    IF output.version # 1 THEN Hold(OutputInvalid)
    ELSE IF (output.action_type = 1 \/ output.action_type = 2) /\ output.order_qty < 0
         THEN Hold(OutputInvalid)
    ELSE [output EXCEPT !.reserved = [i \in 1..8 |-> 0]]

\* lib.rs: fn validate_output(mut output: EvalOutputV1) -> EvalOutputV1
program_validate_output(output) ==
    IF output.version # 1 THEN Hold(OutputInvalid)
    ELSE IF (output.action_type = 1 \/ output.action_type = 2) /\ output.order_qty <= 0
         THEN Hold(OutputInvalid)
    ELSE [output EXCEPT !.reserved = [i \in 1..8 |-> 0]]

\* lib.rs: fn write_output(output_account, output): the new region content
write_output(data, output) ==
    LET serialized == EncodeOutput(output)
    IN  IF Len(data) < Len(serialized) THEN data
        ELSE [i \in 1..Len(data) |->
                 IF i <= Len(serialized) THEN serialized[i] ELSE data[i]]

\* lib.rs: pub fn process_instruction(_program_id, accounts, instruction_data),
\* called with both accounts present and with `policy` the value policy::evaluate
\* returns for the decoded input: the new content of the output region
process_instruction_with(policy, input_data, output_data, instruction_data) ==
    IF instruction_data # <<>>
    THEN write_output(output_data, Hold(InvalidInstructionData))
    ELSE IF ~input_data.wellformed
    THEN write_output(output_data, Hold(InputDeserFail))
    ELSE LET input == input_data.value
         IN  IF input.version # 1
             THEN write_output(output_data, Hold(InvalidInputVersion))
             ELSE IF input.lookback_len # Len(input.ohlcv)
             THEN write_output(output_data, Hold(InvalidLookbackLen))
             ELSE LET output == IF policy.ok THEN policy.value ELSE Hold(PolicyErr)
                  IN  write_output(output_data, program_validate_output(output))

\* the template as built: policy::evaluate is policy.rs
process_instruction(input_data, output_data, instruction_data) ==
    process_instruction_with(evaluate(input_data.value), input_data, output_data,
                             instruction_data)

----------------------------------------------------------------------------
(* The sandbox (solana-program-test) as the harness uses it *)

\* AccountSharedData::new(lamports, space, owner): zero-filled data
ZeroData(space) == [i \in 1..space |-> 0]

AllOnes == [i \in 1..OUTPUT_LEN |-> 255]

OutRecord(version, action_type, order_qty, err_code, reserved) ==
    [version |-> version, action_type |-> action_type, order_qty |-> order_qty,
     err_code |-> err_code, reserved |-> reserved]

\* records an untrusted module may serialize into its output region
RogueRecords ==
    {OutRecord(1, 1, 7, 0, ZeroData(8)),
     OutRecord(1, 1, 0, 0, ZeroData(8)),
     OutRecord(1, 2, 70000, 9, [i \in 1..8 |-> i]),
     OutRecord(1, 2, -70000, 0, ZeroData(8)),
     OutRecord(1, 3, 7, 0, ZeroData(8)),
     OutRecord(1, 0, -1, 5, ZeroData(8)),
     OutRecord(2, 1, 7, 0, ZeroData(8))}

\* contents an untrusted module may leave in its output region: untouched,
\* any 20 bytes, or (the module owns the region and may resize it) a shorter
\* or a longer region
RogueData ==
    {ZeroData(OUTPUT_LEN), AllOnes}
    \cup {EncodeOutput(r) : r \in RogueRecords}
    \cup {<<>>, SubSeq(EncodeOutput(Hold(0)), 1, OUTPUT_LEN - 1),
          EncodeOutput(OutRecord(1, 1, 7, 0, ZeroData(8))) \o <<0>>}

\* compute units one execution of the artifact consumes
UnitsUsed(artifact) == IF artifact = "hold.so" THEN {1500} ELSE {1500, 250000}

\* What the environment decides about one eval:
\*   kind "blockhash_err": get_latest_blockhash fails
\*        "rejected":      process_transaction fails (the sandbox rejects or
\*                         aborts the invocation, the module returns an error)
\*        "run":           the module runs, consuming `units`; an untrusted
\*                         module leaves `data` in its output region
\*        "fetch_err":     the module ran, get_account fails
\*        "missing":       the module ran, get_account finds no account
Scenario(kind, units, data) == [kind |-> kind, units |-> units, data |-> data]

Scenarios(artifact) ==
    {Scenario(k, 1500, ZeroData(OUTPUT_LEN)) :
        k \in {"blockhash_err", "rejected", "fetch_err", "missing"}}
    \cup {Scenario("run", u, ZeroData(OUTPUT_LEN)) : u \in UnitsUsed(artifact)}
    \cup (IF artifact = "hold.so" THEN {}
          ELSE {Scenario("run", 1500, d) : d \in RogueData})

\* the content of the output region after the artifact ran
RunModule(artifact, sc, input_data, output_data) ==
    IF artifact = "hold.so" THEN process_instruction(input_data, output_data, <<>>)
    ELSE sc.data

----------------------------------------------------------------------------
(* main.rs: init_programs *)

EmptyMap == [x \in {} |-> 0]

\* mutant: every call returns the same key
NewUnique_fixed(unique) == 1

\* Pubkey::new_unique(): the key made from the process-wide counter
NewUnique(unique) == unique

\* read_keypair_file(<name>-keypair.json).pubkey(): never a new_unique key
KeypairPubkey(so_path) == IF so_path = "hold.so" THEN 1001 ELSE 1002

\* fn read_program_id(so_path) -> Option<Pubkey>
read_program_id(so_path) ==
    IF so_path \notin KeypairFiles THEN Nothing ELSE Some(KeypairPubkey(so_path))

InitResult(ok, err, program_map, staged, unique) ==
    [ok |-> ok, err |-> err, program_map |-> program_map, staged |-> staged,
     unique |-> unique]

\* mutant: an id already in the map keeps its first entry
Insert_keep_first(map, key, value) == map @@ (key :> value)

\* HashMap::insert(key, value): an entry of the same key is replaced
Insert(map, key, value) == (key :> value) @@ map

\* first loop of init_programs: resolve the address, stage the artifact as
\* <id>.so, insert into the map (HashMap::insert: the last insert wins)
RECURSIVE RegisterAll(_, _, _, _)
RegisterAll(programs, program_map, staged, unique) ==
    IF programs = <<>> THEN InitResult(TRUE, NoMessage, program_map, staged, unique)
    ELSE LET prog == Head(programs)
             found == read_program_id(prog.so_path)
             program_id == IF found.none THEN NewUnique(unique) ELSE found.val
             unique1 == IF found.none THEN unique + 1 ELSE unique
         IN  IF prog.so_path \notin FilesOnDisk
             THEN InitResult(FALSE, <<"No such file or directory", prog.so_path>>,
                             program_map, staged, unique1)
             ELSE RegisterAll(Tail(programs),
                              Insert(program_map, prog.id, [id |-> program_id]),
                              (prog.id :> prog.so_path) @@ staged,
                              unique1)

\* second loop of init_programs: program_test.add_program(&prog.id, info.id, None)
\* loads the staged <id>.so at the address the map holds for the id
RECURSIVE AddPrograms(_, _, _, _)
AddPrograms(programs, program_map, staged, loaded) ==
    IF programs = <<>> THEN loaded
    ELSE LET prog == Head(programs)
         IN  AddPrograms(Tail(programs), program_map, staged,
                         (program_map[prog.id].id :> staged[prog.id]) @@ loaded)

\* ProgramTestContext: the programs loaded at start and the accounts set since
Context(loaded, accounts) == [programs |-> loaded, accounts |-> accounts]

\* async fn init_programs(programs) -> Result<(ProgramTestContext, HashMap)>
\* staging_ok: whether create_dir_all of the staging directory succeeds
init_programs(programs, unique, staging_ok) ==
    IF ~staging_ok
    THEN [ok |-> FALSE, err |-> <<"io error", "create_dir_all">>,
          context |-> Context(EmptyMap, EmptyMap), programs |-> EmptyMap,
          unique |-> unique]
    ELSE LET r == RegisterAll(programs, EmptyMap, EmptyMap, unique)
         IN  IF ~r.ok
             THEN [ok |-> FALSE, err |-> r.err,
                   context |-> Context(EmptyMap, EmptyMap), programs |-> EmptyMap,
                   unique |-> r.unique]
             ELSE [ok |-> TRUE, err |-> NoMessage,
                   context |-> Context(AddPrograms(programs, r.program_map, r.staged,
                                                   EmptyMap),
                                       EmptyMap),
                   programs |-> r.program_map,
                   unique |-> r.unique]

----------------------------------------------------------------------------
(* main.rs: handle_eval *)

\* A &str is the sequence of its chars (Unicode scalar values); str::len() is
\* the length of its UTF-8 encoding
Utf8Len(c) == IF c < 128 THEN 1 ELSE IF c < 2048 THEN 2 ELSE IF c < 65536 THEN 3 ELSE 4

RECURSIVE StrLen(_)
StrLen(value) == IF value = <<>> THEN 0 ELSE Utf8Len(Head(value)) + StrLen(Tail(value))

\* mutant: only lower-case digits are taken as hexadecimal
is_ascii_hexdigit_lower(c) == c \in 48..57 \/ c \in 97..102

\* char::is_ascii_hexdigit: 0-9, A-F, a-f
is_ascii_hexdigit(c) == c \in 48..57 \/ c \in 65..70 \/ c \in 97..102

\* the value of one hexadecimal digit (hex crate: upper and lower case)
HexVal(c) == IF c \in 48..57 THEN c - 48 ELSE IF c \in 65..70 THEN c - 55 ELSE c - 87

\* hex::decode(value): Err on an odd length or on a char that is no hex digit
HexDecode(value) ==
    IF Len(value) % 2 # 0 THEN [ok |-> FALSE, err |-> "Odd number of digits", bytes |-> <<>>]
    ELSE IF \E i \in 1..Len(value) :
                ~(value[i] \in 48..57 \/ value[i] \in 65..70 \/ value[i] \in 97..102)
    THEN [ok |-> FALSE, err |-> "Invalid character", bytes |-> <<>>]
    ELSE [ok |-> TRUE, err |-> NoStr,
          bytes |-> [i \in 1..(Len(value) \div 2) |->
                        16 * HexVal(value[2 * i - 1]) + HexVal(value[2 * i])]]

\* length of a SHA-256 digest (sha2 crate)
DigestLen == 32

\* A 32-byte key: the bytes themselves when they were decoded, or the digest
\* of `preimage` (SHA-256 is not computed; a digest is named by what was hashed)
DecodedKey(bytes) == [source |-> "hex", bytes |-> bytes, preimage |-> <<>>]

Sha256(value) == [source |-> "sha256", bytes |-> <<>>, preimage |-> value]

KeyLen(key) == IF key.source = "hex" THEN Len(key.bytes) ELSE DigestLen

NoKey == DecodedKey(<<>>)

\* fn parse_window_id(value: &str) -> Result<[u8; 32]>; outcome "panic" is
\* copy_from_slice on slices of different lengths
parse_window_id(value) ==
    IF StrLen(value) = 64 /\ \A i \in 1..Len(value) : is_ascii_hexdigit(value[i])
    THEN LET d == HexDecode(value)
         IN  IF ~d.ok THEN [outcome |-> "err", key |-> NoKey]
             ELSE IF Len(d.bytes) # 32 THEN [outcome |-> "panic", key |-> NoKey]
             ELSE [outcome |-> "ok", key |-> DecodedKey(d.bytes)]
    ELSE [outcome |-> "ok", key |-> Sha256(value)]

\* fn convert_input(input: EvalInputJson) -> Result<EvalInputV1>
convert_input(input) ==
    LET window_id == parse_window_id(input.window_id)
    IN  [ok |-> window_id.outcome = "ok",
         value |-> [version |-> input.version, window_id |-> window_id.key,
                    lookback_len |-> input.lookback_len,
                    ohlcv |-> [i \in 1..Len(input.ohlcv) |-> input.ohlcv[i]]]]

\* what one call of handle_eval did, for the properties to read
Trace(stage, allocated, submitted, invoked, fetched, data, raw, output) ==
    [stage |-> stage,          \* where handle_eval returned
     allocated |-> allocated,  \* addresses of the regions set_account created
     submitted |-> submitted,  \* process_transaction was called
     invoked |-> invoked,      \* the artifact that ran, or NoStr
     fetched |-> fetched,      \* get_account returned an account
     data |-> data,            \* its data
     raw |-> raw,              \* the record try_from_slice returned
     output |-> output,        \* the record handle_eval returned
     budget |-> 0,             \* the limit of the compute-budget instruction built
     regions |-> EmptyMap]     \* the accounts handed to set_account, by address

NoRecord == OutRecord(0, 0, 0, 0, ZeroData(8))

NoTrace == Trace("none", {}, FALSE, NoStr, FALSE, <<>>, NoRecord, NoRecord)

EvalResult(ok, output, err, context, unique, trace) ==
    [ok |-> ok, output |-> output, err |-> err, context |-> context,
     unique |-> unique, trace |-> trace]

\* AccountSharedData::new(lamports, space, owner) holding `data`
Account(owner, space, data) == [owner |-> owner, space |-> space, data |-> data]

\* mutant: a short region is reported as a validation failure
ShortOutputHold_as_invalid == Hold(6)

\* handle_eval: `return Ok(EvalOutputV1::hold(7))` for a short output region
ShortOutputHold == Hold(7)

\* async fn handle_eval(context, programs, compute_unit_limit, agent_id, input_json)
\* stages: "lookup" programs.get failed, "convert" convert_input failed,
\* "blockhash" get_latest_blockhash failed, "submit" process_transaction
\* failed, "fetch" get_account failed,
\* "missing" get_account found no account, "short" the region is shorter than
\* OUTPUT_LEN, "decode" try_from_slice failed, "done" the validated record
handle_eval(context, programs, compute_unit_limit, agent_id, input_json, unique, sc) ==
    IF agent_id \notin DOMAIN programs
    THEN EvalResult(FALSE, NoRecord, ProgramNotFound(agent_id), context, unique,
                    Trace("lookup", {}, FALSE, NoStr, FALSE, <<>>, NoRecord, NoRecord))
    ELSE
    LET input == convert_input(input_json)
    IN
    IF ~input.ok
    THEN EvalResult(FALSE, NoRecord, <<"hex error", "window_id">>, context, unique,
                    Trace("convert", {}, FALSE, NoStr, FALSE, <<>>, NoRecord, NoRecord))
    ELSE
    LET program == programs[agent_id]
        input_data == BorshInput(input.value)
        input_pubkey == NewUnique(unique)
        output_pubkey == NewUnique(unique + 1)
        unique2 == unique + 2
        allocated == {input_pubkey, output_pubkey}
        \* AccountSharedData::new + set_data_from_slice; AccountSharedData::new
        input_account == Account(program.id, input_data.len, input_data)
        output_account == Account(program.id, OUTPUT_LEN, ZeroData(OUTPUT_LEN))
        regions == (output_pubkey :> output_account) @@ (input_pubkey :> input_account)
        \* context.set_account, twice
        context1 == [context EXCEPT !.accounts =
                        (output_pubkey :> [owner |-> output_account.owner,
                                           space |-> output_account.space])
                        @@ (input_pubkey :> [owner |-> input_account.owner,
                                             space |-> input_account.space])
                        @@ @]
        \* ComputeBudgetInstruction::set_compute_unit_limit(compute_unit_limit)
        compute_ix == compute_unit_limit
        artifact == context.programs[program.id]
        Fail(stage, err, submitted, invoked) ==
            EvalResult(FALSE, NoRecord, err, context1, unique2,
                       [Trace(stage, allocated, submitted, invoked, FALSE, <<>>,
                              NoRecord, NoRecord)
                            EXCEPT !.budget = compute_ix, !.regions = regions])
        Fetched(ok, stage, output, err, data, raw) ==
            EvalResult(ok, output, err, context1, unique2,
                       [Trace(stage, allocated, TRUE, artifact, TRUE, data, raw, output)
                            EXCEPT !.budget = compute_ix, !.regions = regions])
    IN  IF sc.kind = "blockhash_err"
        THEN Fail("blockhash", <<"transport error", "get_latest_blockhash">>, FALSE, NoStr)
        ELSE IF sc.kind = "rejected"
        THEN Fail("submit", <<"transport transaction error", "rejected">>, TRUE, NoStr)
        ELSE IF sc.units > compute_ix
        THEN Fail("submit", <<"transport transaction error", "exceeded CUs meter">>,
                  TRUE, artifact)
        ELSE IF sc.kind = "fetch_err"
        THEN Fail("fetch", <<"transport error", "get_account">>, TRUE, artifact)
        ELSE IF sc.kind = "missing"
        THEN Fail("missing", EvalFailed("missing output account"), TRUE, artifact)
        ELSE
        LET data == RunModule(artifact, sc, input_account.data, output_account.data)
        IN  IF Len(data) < OUTPUT_LEN
            THEN Fetched(TRUE, "short", ShortOutputHold, NoMessage, data, NoRecord)
            ELSE LET d == DecodeOutput(data)
                 IN  IF ~d.ok
                     THEN Fetched(FALSE, "decode", NoRecord, <<"io error", d.err>>, data,
                                  NoRecord)
                     ELSE Fetched(TRUE, "done", validate_output(d.value), NoMessage, data,
                                  d.value)

----------------------------------------------------------------------------
(* main.rs: main *)

HarnessState(context, programs, compute_unit_limit) ==
    [context |-> context, programs |-> programs,
     compute_unit_limit |-> compute_unit_limit]

\* req.compute_unit_limit.unwrap_or(200_000)
ComputeLimit(opt) == IF opt.none THEN DefaultComputeUnitLimit ELSE opt.val

\* mutant: the error for an unparseable line carries id 1
InvalidRequest_id1(err) == ErrorResponse(1, <<"invalid request: ", err>>)

\* the Err arm of serde_json::from_str: request_id 0
InvalidRequest(err) == ErrorResponse(0, <<"invalid request: ", err>>)

\* mutant: whatever init_programs built is installed, failed or not
InitState_always(old, r, compute_limit) ==
    HarnessState(r.context, r.programs, compute_limit)

\* mutant: a failed init tears the existing session down
InitState_drop(old, r, compute_limit) ==
    IF r.ok THEN HarnessState(r.context, r.programs, compute_limit) ELSE None

\* mutant: a later init adds to the registry of the session it finds
InitState_merge(old, r, compute_limit) ==
    IF ~r.ok THEN old
    ELSE IF old = None THEN HarnessState(r.context, r.programs, compute_limit)
    ELSE HarnessState(r.context, r.programs @@ old.programs, compute_limit)

\* Request::Init: the state after init_programs returned r
InitState(old, r, compute_limit) ==
    IF r.ok THEN HarnessState(r.context, r.programs, compute_limit) ELSE old

\* Request::Init: the response after init_programs returned r
InitResponse(req, r) ==
    IF r.ok THEN OkResponse(req.request_id) ELSE ErrorResponse(req.request_id, r.err)

\* mutant: the uninitialized error loses the request id
NotInitialized_id0(req) == ErrorResponse(0, <<"not initialized", NoStr>>)

\* Request::Eval with state None
NotInitialized(req) == ErrorResponse(req.request_id, <<"not initialized", NoStr>>)

\* mutant: an output carrying a diagnostic code is reported as a failure
EvalResponse_loud(req, r) ==
    IF r.ok /\ r.output.err_code = 0
    THEN ResultResponse(req.request_id, req.agent_id, r.output)
    ELSE ErrorResponse(req.request_id, r.err)

\* mutant: an eval that fails tears the session down
EvalState_reset(st, r) == IF r.ok THEN [st EXCEPT !.context = r.context] ELSE None

\* Request::Eval: handle_eval borrows state.context mutably and reads the rest
EvalState(st, r) == [st EXCEPT !.context = r.context]

\* mutant: a failed eval is downgraded to a hold result
EvalResponse_quiet(req, r) ==
    IF r.ok THEN ResultResponse(req.request_id, req.agent_id, r.output)
    ELSE ResultResponse(req.request_id, req.agent_id, Hold(7))

\* Request::Eval: the response after handle_eval returned r
EvalResponse(req, r) ==
    IF r.ok THEN ResultResponse(req.request_id, req.agent_id, r.output)
    ELSE ErrorResponse(req.request_id, r.err)

\* Request::Shutdown
ShutdownResponse(req) == OkResponse(req.request_id)

\* mutant: the loop goes on after the shutdown response
AfterShutdown_continue == "loop"

\* `break` after the shutdown response
AfterShutdown == "shutdown"

\* what the histories keep of a line and of a response
LineSummary(line) ==
    [blank |-> line.text = "blank",
     id |-> IF line.text = "json" /\ line.type \in RequestTypes /\ line.fields_ok
            THEN line.request_id ELSE 0]

Written(response) == response.request_id

\* fn write_response(response): one line on stdout
write_response(out, response) == Append(out, Written(response))

Last(line, pre, response, trace) ==
    [line |-> line, pre |-> pre, response |-> response, trace |-> trace]

\* no function is being applied on its own (the harness is running)
NoCall == [fn |-> "none", applied |-> FALSE]

InitLines ==
    {InitLine(id, ps, l) : id \in RequestIds, ps \in ProgramLists, l \in ComputeUnitLimits}

EvalLines == {EvalLine(id, a, i) : id \in RequestIds, a \in AgentIds, i \in EvalInputs}

ShutdownLines == {ShutdownLine(id) : id \in RequestIds}

Lines == {BlankLine} \cup MalformedLines \cup InitLines \cup EvalLines \cup ShutdownLines

Init ==
    /\ state = None
    /\ next_unique = 1
    /\ pc = "loop"
    /\ consumed = <<>>
    /\ stdout = <<>>
    /\ last = Last(BlankLine, None, NoResponse, NoTrace)
    /\ call = NoCall

\* lines.next_line() returned Some(line)
Read(line) ==
    /\ pc = "loop"
    /\ Len(consumed) < MaxLines
    /\ consumed' = Append(consumed, LineSummary(line))

\* `if line.trim().is_empty() { continue; }`
SkipBlank ==
    \E line \in Lines :
        /\ Read(line)
        /\ IsBlank(line)
        /\ last' = Last(line, state, NoResponse, NoTrace)
        /\ UNCHANGED <<state, next_unique, pc, stdout, call>>

\* serde_json::from_str failed
RejectLine ==
    \E line \in Lines :
        /\ Read(line)
        /\ ~IsBlank(line)
        /\ ~ParseRequest(line).ok
        /\ LET response == InvalidRequest(ParseRequest(line).err)
           IN  /\ stdout' = write_response(stdout, response)
               /\ last' = Last(line, state, response, NoTrace)
        /\ UNCHANGED <<state, next_unique, pc, call>>

\* Request::Init(req)
HandleInit ==
    \E line \in Lines, staging_ok \in BOOLEAN :
        /\ Read(line)
        /\ ~IsBlank(line)
        /\ ParseRequest(line).ok
        /\ line.type = "init"
        /\ \E r \in {init_programs(line.programs, next_unique, staging_ok)} :
           LET compute_limit == ComputeLimit(line.compute_unit_limit)
               response == InitResponse(line, r)
           IN  /\ state' = InitState(state, r, compute_limit)
               /\ next_unique' = r.unique
               /\ stdout' = write_response(stdout, response)
               /\ last' = Last(line, state, response, NoTrace)
        /\ UNCHANGED <<pc, call>>

\* Request::Eval(req) with state None
HandleEvalUninitialized ==
    \E line \in Lines :
        /\ Read(line)
        /\ ~IsBlank(line)
        /\ ParseRequest(line).ok
        /\ line.type = "eval"
        /\ state = None
        /\ LET response == NotInitialized(line)
           IN  /\ stdout' = write_response(stdout, response)
               /\ last' = Last(line, state, response, NoTrace)
        /\ UNCHANGED <<state, next_unique, pc, call>>

\* Request::Eval(req) with state Some(st)
HandleEval ==
    \E line \in Lines :
        /\ Read(line)
        /\ ~IsBlank(line)
        /\ ParseRequest(line).ok
        /\ line.type = "eval"
        /\ state # None
        /\ \E sc \in IF line.agent_id \in DOMAIN state.programs
                     THEN Scenarios(state.context.programs[state.programs[line.agent_id].id])
                     ELSE {Scenario("run", 1500, ZeroData(OUTPUT_LEN))} :
              \E r \in {handle_eval(state.context, state.programs, state.compute_unit_limit,
                                     line.agent_id, line.input, next_unique, sc)} :
              LET response == EvalResponse(line, r)
              IN  /\ state' = EvalState(state, r)
                  /\ next_unique' = r.unique
                  /\ stdout' = write_response(stdout, response)
                  /\ last' = Last(line, state, response, r.trace)
        /\ UNCHANGED <<pc, call>>

\* Request::Shutdown(req)
HandleShutdown ==
    \E line \in Lines :
        /\ Read(line)
        /\ ~IsBlank(line)
        /\ ParseRequest(line).ok
        /\ line.type = "shutdown"
        /\ LET response == ShutdownResponse(line)
           IN  /\ stdout' = write_response(stdout, response)
               /\ last' = Last(line, state, response, NoTrace)
        /\ pc' = AfterShutdown
        /\ UNCHANGED <<state, next_unique, call>>

\* lines.next_line() returned None: stdin is closed, main returns
EndOfInput ==
    /\ pc = "loop"
    /\ Len(consumed) < MaxLines
    /\ pc' = "eof"
    /\ UNCHANGED <<state, next_unique, consumed, stdout, last, call>>

Next ==
    \/ SkipBlank
    \/ RejectLine
    \/ HandleInit
    \/ HandleEvalUninitialized
    \/ HandleEval
    \/ HandleShutdown
    \/ EndOfInput

Spec == Init /\ [][Next]_vars

----------------------------------------------------------------------------
(* The functions of the program applied on their own: FnInit draws an      *)
(* input, one action applies the function to it                            *)

Call(fn, input) == [fn |-> fn, applied |-> FALSE, input |-> input]

Applied(fn, input, result) ==
    [fn |-> fn, applied |-> TRUE, input |-> input, result |-> result]

\* EvalOutputV1 values: every field at its extremes and in between (order_qty
\* at the extremes of 32 bits)
SampleRecords ==
    [version : {0, 1, 2, 255},
     action_type : {0, 1, 2, 3, 255},
     order_qty : {-2147483647, -70000, -1, 0, 1, 70000, 2147483647},
     err_code : {0, 6, 256, 65535},
     reserved : {ZeroData(8), [i \in 1..8 |-> i], [i \in 1..8 |-> 255]}]

\* the first n bytes of data, zero-padded
Resize(data, n) == [i \in 1..n |-> IF i <= Len(data) THEN data[i] ELSE 0]

\* byte strings handed to try_from_slice: of every length up to MaxRegionLen
Regions ==
    {AllOnes}
    \cup {Resize(EncodeOutput(r), n) :
             r \in {Hold(ErrOk), OutRecord(1, 1, 7, 0, ZeroData(8)),
                    OutRecord(1, 2, -1, 9, [i \in 1..8 |-> 255])},
             n \in 0..MaxRegionLen}

\* n copies of the string unit
RECURSIVE Rep(_, _)
Rep(unit, n) == IF n = 0 THEN <<>> ELSE unit \o Rep(unit, n - 1)

\* hex digits of both cases: 0 9 A F a f
HexSample == {48, 57, 65, 70, 97, 102}

\* the chars next to the three digit ranges: / : @ G ` g, and e-acute (two
\* bytes in UTF-8)
NonHexSample == {47, 58, 64, 71, 96, 103, 233}

\* window ids: runs of one char of every length up to MaxWindowIdLen, 64-digit
\* ids of any two digits alternating, 64-digit ids with one char that is no
\* digit, and "w1"
WindowIds ==
    {W1}
    \cup {Rep(<<c>>, n) : c \in {48, 70, 102} \cup NonHexSample, n \in 0..MaxWindowIdLen}
    \cup {Rep(<<a, b>>, 32) : a \in HexSample, b \in HexSample}
    \cup {[Rep(<<65, 98>>, 32) EXCEPT ![i] = c] : i \in {1, 64}, c \in NonHexSample}

\* what policy::evaluate may return
PolicyResults ==
    {[ok |-> FALSE, value |-> Hold(ErrOk)]}
    \cup {[ok |-> TRUE, value |-> r] :
             r \in {Hold(ErrOk),
                    OutRecord(1, 1, 7, 0, [i \in 1..8 |-> i]),
                    OutRecord(1, 1, 0, 0, ZeroData(8)),
                    OutRecord(1, 2, -1, 0, ZeroData(8)),
                    OutRecord(2, 0, 0, 0, ZeroData(8)),
                    OutRecord(1, 3, 7, 0, ZeroData(8))}}

\* one invocation of the module: the instruction payload, whether the input
\* region decodes and to what, and what the policy returns
ModuleInputs ==
    [instruction_data : {<<>>, <<0>>, <<1, 2>>},
     wellformed : BOOLEAN,
     version : {0, 1, 2},
     lookback_len : {0, 1, 2},
     ohlcv : {<<>>, <<Bar1>>, <<Bar1, Bar1>>},
     policy : PolicyResults]

\* the input region of an invocation
InputRegion(m) ==
    [len |-> 91 + 40 * Len(m.ohlcv), wellformed |-> m.wellformed,
     value |-> [version |-> m.version, window_id |-> Sha256(W1),
                lookback_len |-> m.lookback_len, ohlcv |-> m.ohlcv]]

FnInit ==
    /\ state = None
    /\ next_unique = 1
    /\ pc = "apply"
    /\ consumed = <<>>
    /\ stdout = <<>>
    /\ last = Last(BlankLine, None, NoResponse, NoTrace)
    /\ \/ call \in {Call("to_vec", r) : r \in SampleRecords}
       \/ call \in {Call("try_from_slice", d) : d \in Regions}
       \/ call \in {Call("parse_window_id", w) : w \in WindowIds}
       \/ call \in {Call("process_instruction", m) : m \in ModuleInputs}
       \/ call \in {Call("validate_output", r) : r \in SampleRecords}

\* borsh::to_vec(&output), and try_from_slice of what it returned
SerializeOutput ==
    /\ call.fn = "to_vec" /\ ~call.applied
    /\ call' = Applied("to_vec", call.input,
                       [bytes |-> EncodeOutput(call.input),
                        decoded |-> DecodeOutput(EncodeOutput(call.input))])
    /\ UNCHANGED <<state, next_unique, pc, consumed, stdout, last>>

\* EvalOutputV1::try_from_slice(&data)
DeserializeOutput ==
    /\ call.fn = "try_from_slice" /\ ~call.applied
    /\ call' = Applied("try_from_slice", call.input, DecodeOutput(call.input))
    /\ UNCHANGED <<state, next_unique, pc, consumed, stdout, last>>

\* parse_window_id(value), and convert_input of an input carrying the value
ParseWindowId ==
    /\ call.fn = "parse_window_id" /\ ~call.applied
    /\ call' = Applied("parse_window_id", call.input,
                       [parsed |-> parse_window_id(call.input),
                        converted |->
                            convert_input([version |-> 1, window_id |-> call.input,
                                           lookback_len |-> 1, ohlcv |-> <<Bar1>>])])
    /\ UNCHANGED <<state, next_unique, pc, consumed, stdout, last>>

\* process_instruction on a zero-filled output region of OUTPUT_LEN bytes
ProcessInstruction ==
    /\ call.fn = "process_instruction" /\ ~call.applied
    /\ call' = Applied("process_instruction", call.input,
                       process_instruction_with(call.input.policy, InputRegion(call.input),
                                                ZeroData(OUTPUT_LEN),
                                                call.input.instruction_data))
    /\ UNCHANGED <<state, next_unique, pc, consumed, stdout, last>>

\* the module's validate_output, the host's, and the host's on the module's
ValidateOutput ==
    /\ call.fn = "validate_output" /\ ~call.applied
    /\ call' = Applied("validate_output", call.input,
                       [host |-> validate_output(call.input),
                        module |-> program_validate_output(call.input),
                        host_of_module |->
                            validate_output(program_validate_output(call.input))])
    /\ UNCHANGED <<state, next_unique, pc, consumed, stdout, last>>

FnNext ==
    \/ SerializeOutput
    \/ DeserializeOutput
    \/ ParseWindowId
    \/ ProcessInstruction
    \/ ValidateOutput

FnSpec == FnInit /\ [][FnNext]_vars


----------------------------------------------------------------------------
(* Properties *)

\* the last loop iteration handled a line that parsed as a request of `type`
Handled(type) ==
    /\ consumed # <<>>
    /\ last.line.text = "json"
    /\ last.line.type = type
    /\ last.line.fields_ok

\* the last line read is neither blank nor a request
Unparseable ==
    /\ consumed # <<>>
    /\ last.line.text # "blank"
    /\ \/ last.line.text # "json"
       \/ last.line.type \notin {"init", "eval", "shutdown"}
       \/ ~last.line.fields_ok

\* the last response is the last line of stdout
Answered == stdout # <<>> /\ stdout[Len(stdout)] = last.response.request_id

\* C1: an eval handled while no init has succeeded (state is None) is
\* answered with an error response carrying the eval's request_id and the
\* message "not initialized", runs no module, allocates nothing, and leaves
\* the state None.
C1_EvalBeforeInit ==
    (Handled("eval") /\ last.pre = None) =>
        /\ last.response = ErrorResponse(last.line.request_id, <<"not initialized", NoStr>>)
        /\ last.response.type # "result"
        /\ Answered
        /\ last.trace.invoked = NoStr
        /\ ~last.trace.submitted
        /\ last.trace.allocated = {}
        /\ state = None

\* the second request, an eval with id 1, was answered in the Uninitialized state
C1_Witness ==
    /\ Handled("eval")
    /\ last.pre = None
    /\ Len(consumed) = 2
    /\ stdout = <<2, 1>>

\* some listed artifact of the last init cannot be loaded
LoadFails ==
    \E i \in DOMAIN last.line.programs : last.line.programs[i].so_path \notin FilesOnDisk

\* C2: an init that lists a module whose artifact cannot be loaded is answered
\* with an error response carrying its request_id and installs nothing: the
\* state is what it was before, so an Uninitialized harness stays Uninitialized.
C2_InitAllOrNothing ==
    /\ (Handled("init") /\ LoadFails) =>
          /\ last.response.type = "error"
          /\ last.response.request_id = last.line.request_id
          /\ Answered
          /\ state = last.pre
          /\ (last.pre = None => state = None)
    \* whatever made the init fail (the staging directory included)
    /\ (Handled("init") /\ last.response.type # "ok") =>
          /\ last.response.type = "error"
          /\ state = last.pre

\* an init failed on its second module after the first one was staged
C2_Witness ==
    /\ Handled("init")
    /\ Len(last.line.programs) = 2
    /\ last.line.programs[1].so_path \in FilesOnDisk
    /\ last.line.programs[2].so_path \notin FilesOnDisk
    /\ last.pre = None

\* C3: a shutdown, in any state, is answered with an ok response carrying its
\* request_id and ends the loop; once the loop has ended no line is read and
\* no response is written.
C3_Shutdown ==
    /\ [](Handled("shutdown") =>
            /\ last.response = OkResponse(last.line.request_id)
            /\ Answered
            /\ pc = "shutdown")
    /\ [][pc # "loop" => (pc' = pc /\ consumed' = consumed /\ stdout' = stdout
                          /\ state' = state /\ last' = last)]_vars

\* a shutdown was answered by an initialized harness
C3_Witness ==
    /\ pc = "shutdown"
    /\ last.pre # None
    /\ last.response.type = "ok"
    /\ Len(consumed) < MaxLines

NonBlank(summary) == ~summary.blank

\* C4: the responses written correspond one-to-one and in order to the
\* non-blank lines read: the k-th response carries the request_id of the k-th
\* non-blank line, 0 if that line was not a request; this holds whenever the
\* next line is about to be read, and blank lines add no response.
C4_ResponsesInOrder ==
    LET nonblank == SelectSeq(consumed, NonBlank)
    IN  /\ Len(stdout) = Len(nonblank)
        /\ \A k \in 1..Len(nonblank) : stdout[k] = nonblank[k].id

\* a blank line, an unparseable line and a request were read, in some order,
\* and two responses with different ids were written
C4_Witness ==
    /\ Len(consumed) = 3
    /\ consumed[1].blank
    /\ ~consumed[2].blank /\ consumed[2].id = 0
    /\ consumed[3].id = 2
    /\ stdout = <<0, 2>>

\* C5: a line that is not an init, eval or shutdown request (an unknown type
\* discriminator included) is answered with an error response with request_id
\* 0, leaves the state as it was, and the loop goes on.
C5_UnparseableLine ==
    /\ [](Unparseable =>
            /\ last.response.type = "error"
            /\ last.response.request_id = 0
            /\ Answered
            /\ state = last.pre)
    /\ [][(consumed' # consumed /\ Unparseable') => (state' = state /\ pc' = "loop")]_vars

\* a line with an unknown discriminator was rejected by an initialized harness
C5_Witness ==
    /\ Unparseable
    /\ last.line.type = "ping"
    /\ last.pre # None

\* C6: an eval for an agent id that is not a key of the registry of an
\* initialized harness is answered with an error response that carries the
\* eval's request_id and whose message names the agent id.
C6_UnknownAgent ==
    (Handled("eval") /\ last.pre # None
        /\ last.line.agent_id \notin DOMAIN last.pre.programs) =>
        /\ last.response.type = "error"
        /\ last.response.request_id = last.line.request_id
        /\ Answered
        /\ last.response.message[2] = last.line.agent_id

\* agent "B" was evaluated against a registry that holds only "A"
C6_Witness ==
    /\ Handled("eval")
    /\ last.pre # None
    /\ DOMAIN last.pre.programs = {"A"}
    /\ last.line.agent_id = "B"

\* the host decoded an output record in the last eval
Decoded == Handled("eval") /\ last.trace.stage = "done"

\* the validation rule of the output schema
SchemaViolation(r) ==
    \/ r.version # 1
    \/ (r.action_type \in {1, 2} /\ r.order_qty <= 0)

\* C7: a decoded output record with version # 1, or with action_type 1 or 2
\* and order_qty <= 0, is replaced by the canonical hold record (version 1,
\* action_type 0, order_qty 0, reserved zero) with err_code 6; every result
\* response has version 1, and order_qty > 0 when its action_type is 1 or 2.
C7_HostValidation ==
    /\ (Decoded /\ SchemaViolation(last.trace.raw)) =>
          last.trace.output = [version |-> 1, action_type |-> 0, order_qty |-> 0,
                               err_code |-> 6, reserved |-> <<0, 0, 0, 0, 0, 0, 0, 0>>]
    /\ (consumed # <<>> /\ last.response.type = "result") =>
          /\ last.response.output.version = 1
          /\ (last.response.output.action_type \in {1, 2} =>
                 last.response.output.order_qty > 0)

\* a module wrote a sell with a negative quantity and the host answered
C7_Witness ==
    /\ Decoded
    /\ last.trace.raw.action_type = 2
    /\ last.trace.raw.order_qty < 0
    /\ last.response.type = "result"

ShortRegion == Handled("eval") /\ last.trace.fetched /\ Len(last.trace.data) < OUTPUT_LEN

\* the last eval failed at submission (rejected, aborted, budget exhausted)
\* or found no output account
SubmissionOrMissing == Handled("eval") /\ last.trace.stage \in {"submit", "missing"}

\* C9 as stated: submission failures, budget exhaustion and a missing or short
\* output region are all answered with an error response.
C9_Original ==
    (SubmissionOrMissing \/ ShortRegion) =>
        /\ last.response.type = "error"
        /\ last.response.request_id = last.line.request_id

\* C9 as amended: submission failures, budget exhaustion and a missing output
\* region are answered with an error response carrying the eval's request_id;
\* a short output region is answered with a result response.
C9_ExecutionFailureIsLoud ==
    /\ SubmissionOrMissing =>
          /\ last.response.type = "error"
          /\ last.response.request_id = last.line.request_id
          /\ Answered
    /\ ShortRegion =>
          /\ last.response.type = "result"
          /\ last.response.request_id = last.line.request_id

\* an invocation ran out of compute units under an explicit limit
C9_Witness ==
    /\ Handled("eval")
    /\ last.trace.stage = "submit"
    /\ last.trace.invoked # NoStr
    /\ last.pre.compute_unit_limit < DefaultComputeUnitLimit
    /\ last.response.type = "error"

\* C10: when the fetched output region holds fewer than 20 bytes the harness
\* returns before decoding, and the eval yields the canonical hold record
\* (version 1, action_type 0, order_qty 0) with err_code 7.
C10_ShortRegionHolds ==
    ShortRegion =>
        /\ last.trace.stage = "short"
        /\ last.trace.raw = NoRecord
        /\ last.trace.output = [version |-> 1, action_type |-> 0, order_qty |-> 0,
                                err_code |-> 7, reserved |-> <<0, 0, 0, 0, 0, 0, 0, 0>>]
        /\ last.response.type = "result"
        /\ last.response.output = [version |-> 1, action_type |-> 0, order_qty |-> 0,
                                   err_code |-> 7]

\* a module shrank its output region to 19 bytes
C10_Witness ==
    /\ ShortRegion
    /\ Len(last.trace.data) = OUTPUT_LEN - 1
    /\ last.response.type = "result"

\* C11 as stated: every result response carries action_type 0 (hold), 1 (buy)
\* or 2 (sell), whatever bytes the module left in its output region.
C11_Original ==
    (consumed # <<>> /\ last.response.type = "result") =>
        last.response.output.action_type \in {0, 1, 2}

\* the session as the state machine of the protocol sees it
SessionOf(s) ==
    IF s = None
    THEN [initialized |-> FALSE, programs |-> EmptyMap, compute_unit_limit |-> 0]
    ELSE [initialized |-> TRUE, programs |-> s.programs,
          compute_unit_limit |-> s.compute_unit_limit]

\* C12: no eval, whatever its outcome, changes whether the session is
\* initialized, its registry or its budget; the session changes only by an init
\* answered ok, which leaves it initialized; an initialized session is never
\* uninitialized again, and the loop is left only by a shutdown or at the end of
\* the input.
C12_SessionStateMachine ==
    /\ Handled("eval") => SessionOf(state) = SessionOf(last.pre)
    /\ (consumed # <<>> /\ SessionOf(state) # SessionOf(last.pre)) =>
          /\ Handled("init")
          /\ last.response.type = "ok"
    /\ (Handled("init") /\ last.response.type = "ok") => state # None
    /\ last.pre # None => state # None
    /\ pc \in {"loop", "shutdown", "eof"}
    /\ pc = "shutdown" => Handled("shutdown")

\* an eval that failed at submission left an initialized session behind
C12_Witness ==
    /\ Handled("eval")
    /\ last.pre # None
    /\ last.trace.stage = "submit"
    /\ last.response.type = "error"
    /\ pc = "loop"

\* the agent of the last eval is registered in the session that handled it
Registered ==
    Handled("eval") /\ last.pre # None /\ last.line.agent_id \in DOMAIN last.pre.programs

\* C13: an eval for an unknown agent allocates no region, submits nothing and
\* leaves the whole state (sandbox context included) as it was; an init that
\* fails while a session exists leaves registry, budget and context as they
\* were; an eval for a registered agent is never refused at the lookup.
C13_SessionErrorsKeepState ==
    /\ (Handled("eval") /\ last.pre # None /\ ~Registered) =>
          /\ last.response.type = "error"
          /\ last.trace.allocated = {}
          /\ ~last.trace.submitted
          /\ last.trace.invoked = NoStr
          /\ state = last.pre
    /\ (Handled("init") /\ last.response.type = "error") =>
          /\ state = last.pre
          /\ last.response.request_id = last.line.request_id
    /\ Registered =>
          /\ last.trace.stage \notin {"none", "lookup"}
          /\ last.trace.allocated # {}

\* an init failed while a session with agent "A" existed
C13_Witness ==
    /\ Handled("init")
    /\ last.response.type = "error"
    /\ last.pre # None
    /\ "A" \in DOMAIN last.pre.programs
    /\ state = last.pre

\* the artifact registered for the agent of the last eval
ArtifactOf(st, agent_id) == st.context.programs[st.programs[agent_id].id]

\* C14: an eval whose lookback_len differs from the number of bars passes
\* convert_input, gets its regions and (once a blockhash is obtained) is
\* submitted; when the template module ran and its output region was fetched,
\* the response is a result with err_code 3, action_type 0 and order_qty 0.
C14_NoBarCountPrecheck ==
    (Registered /\ last.line.input.lookback_len # Len(last.line.input.ohlcv)) =>
        /\ last.trace.stage # "convert"
        /\ last.trace.allocated # {}
        /\ (last.trace.stage # "blockhash" => last.trace.submitted)
        /\ (last.trace.invoked = "hold.so" /\ last.trace.fetched) =>
              /\ last.response.type = "result"
              /\ last.response.request_id = last.line.request_id
              /\ last.response.output =
                    [version |-> 1, action_type |-> 0, order_qty |-> 0, err_code |-> 3]

\* the template answered an input announcing two bars and carrying one
C14_Witness ==
    /\ Registered
    /\ last.line.input.lookback_len = 2
    /\ Len(last.line.input.ohlcv) = 1
    /\ last.trace.invoked = "hold.so"
    /\ last.response.type = "result"

\* the last eval is for agent "A", registered with the template, with a valid input
TemplateEval ==
    /\ Registered
    /\ last.line.agent_id = "A"
    /\ ArtifactOf(last.pre, "A") = "hold.so"
    /\ last.line.input.version = 1
    /\ last.line.input.lookback_len = Len(last.line.input.ohlcv)

\* the sandbox itself failed: no blockhash, the transaction rejected before the
\* module ran, or the output account not returned
SandboxFailed ==
    \/ last.trace.stage \in {"blockhash", "fetch", "missing"}
    \/ (last.trace.stage = "submit" /\ last.trace.invoked = NoStr)

HappyResult ==
    Response("result", last.line.request_id, NoMessage, "A", "OK",
             [version |-> 1, action_type |-> 0, order_qty |-> 0, err_code |-> 0])

\* C15 as stated: after a successful init registering the template under "A",
\* every eval for "A" with version 1 and lookback_len equal to the number of
\* bars, which the sandbox does not fail, yields the hold result with err_code 0.
C15_Original == (TemplateEval /\ ~SandboxFailed) => last.response = HappyResult

\* C15 as amended: the same, for every such eval whose invocation completes
\* within the session's compute-unit limit; one that exhausts the limit is
\* answered with an error response carrying the eval's request_id.
C15_HappyPath ==
    /\ (TemplateEval /\ ~SandboxFailed /\ last.trace.stage # "submit") =>
          /\ last.response = HappyResult
          /\ Answered
    /\ (TemplateEval /\ last.trace.stage = "submit" /\ last.trace.invoked # NoStr) =>
          /\ last.response.type = "error"
          /\ last.response.request_id = last.line.request_id

\* the template answered a one-bar input under the default limit
C15_Witness ==
    /\ TemplateEval
    /\ last.pre.compute_unit_limit = 200000
    /\ last.trace.stage = "done"
    /\ last.response.type = "result"
    /\ last.response.request_id = 2

\* the agent ids an init lists
Ids(programs) == {programs[i].id : i \in DOMAIN programs}

\* C18: an init answered ok installs a session whose registry holds exactly
\* the agent ids it lists, whose context holds no account of an earlier
\* session, and whose limit is the one it names, 200,000 if it names none,
\* whatever session existed before; every eval looks its agent up in that
\* registry and builds its compute-budget instruction from that limit.
C18_InitReplaces ==
    /\ (Handled("init") /\ last.response.type = "ok") =>
          /\ state # None
          /\ DOMAIN state.programs = Ids(last.line.programs)
          /\ state.context.accounts = EmptyMap
          /\ state.compute_unit_limit =
                IF last.line.compute_unit_limit.none THEN 200000
                ELSE last.line.compute_unit_limit.val
    /\ (Handled("eval") /\ last.pre # None /\ ~Registered) =>
          last.response.message = <<"program not found: ", last.line.agent_id>>
    /\ Registered => last.trace.budget = last.pre.compute_unit_limit

\* an init naming no limit and only agent "A" replaced a session that held
\* agents "A" and "B" under a limit of 1000
C18_Witness ==
    /\ Handled("init")
    /\ last.response.type = "ok"
    /\ last.pre # None
    /\ DOMAIN last.pre.programs = {"A", "B"}
    /\ last.pre.compute_unit_limit = 1000
    /\ DOMAIN state.programs = {"A"}
    /\ last.line.compute_unit_limit.none

\* the function `fn` has been applied to the drawn input
Done(fn) == call.fn = fn /\ call.applied

\* b is the 8-byte little-endian two's complement of v
I64Layout(v, b) ==
    LET u == IF v >= 0 THEN v ELSE (v + 2147483647) + 1
    IN  /\ Len(b) = 8
        /\ b[1] + 256 * b[2] = u % 65536
        /\ b[3] + 256 * b[4] = (u \div 65536) + (IF v >= 0 THEN 0 ELSE 32768)
        /\ \A i \in 5..8 : b[i] = (IF v >= 0 THEN 0 ELSE 255)

\* C16: encoding an output record yields exactly 20 bytes, version in byte 0,
\* action_type in byte 1, order_qty in bytes 2-9, err_code in bytes 10-11,
\* reserved in bytes 12-19, and decoding them gives back every field; decoding
\* a byte string succeeds exactly when its length is 20, and then encoding
\* the decoded record gives back the bytes.
C16_CodecRoundTrip ==
    /\ Done("to_vec") =>
          LET r == call.input
              b == call.result.bytes
          IN  /\ Len(b) = 20
              /\ b[1] = r.version
              /\ b[2] = r.action_type
              /\ I64Layout(r.order_qty, SubSeq(b, 3, 10))
              /\ b[11] + 256 * b[12] = r.err_code
              /\ SubSeq(b, 13, 20) = r.reserved
              /\ call.result.decoded.ok
              /\ call.result.decoded.value = r
    /\ Done("try_from_slice") =>
          /\ (Len(call.input) # 20 => ~call.result.ok)
          /\ (Len(call.input) = 20 =>
                 /\ call.result.ok
                 /\ EncodeOutput(call.result.value) = call.input)

\* a record with a negative quantity, a two-byte error code and non-zero
\* reserved bytes was encoded and decoded
C16_Witness ==
    /\ Done("to_vec")
    /\ call.input.order_qty = -70000
    /\ call.input.err_code = 65535
    /\ call.input.reserved = <<1, 2, 3, 4, 5, 6, 7, 8>>
    /\ call.result.decoded.ok

\* the sixteen digits, lower case and upper case
LowerDigits == <<48, 49, 50, 51, 52, 53, 54, 55, 56, 57, 97, 98, 99, 100, 101, 102>>

UpperDigits == <<48, 49, 50, 51, 52, 53, 54, 55, 56, 57, 65, 66, 67, 68, 69, 70>>

IsDigit(c) == \E v \in 1..16 : LowerDigits[v] = c \/ UpperDigits[v] = c

DigitValue(c) == (CHOOSE v \in 1..16 : LowerDigits[v] = c \/ UpperDigits[v] = c) - 1

\* value is a string of exactly 64 hexadecimal digits
IsHex64(value) == Len(value) = 64 /\ \A i \in 1..64 : IsDigit(value[i])

\* C17: parse_window_id never fails and always gives a 32-byte key; for a
\* string of exactly 64 hexadecimal digits of either case the key is the 32
\* bytes the digits spell, for every other string it is the digest of the
\* string; convert_input of an input carrying the string succeeds with that key.
C17_WindowIdNormalization ==
    Done("parse_window_id") =>
        LET value == call.input
            key == call.result.parsed.key
        IN  /\ call.result.parsed.outcome = "ok"
            /\ KeyLen(key) = 32
            /\ IsHex64(value) =>
                  /\ key.source = "hex"
                  /\ Len(key.bytes) = 32
                  /\ \A i \in 1..32 :
                        key.bytes[i] = 16 * DigitValue(value[2 * i - 1])
                                       + DigitValue(value[2 * i])
            /\ ~IsHex64(value) => key = [source |-> "sha256", bytes |-> <<>>,
                                         preimage |-> value]
            /\ call.result.converted.ok
            /\ call.result.converted.value.window_id = key

\* the 64 digits "aFaF..aF", of both cases, were decoded to 32 bytes 0xAF
C17_Witness ==
    /\ Done("parse_window_id")
    /\ Len(call.input) = 64
    /\ call.input[1] = 97
    /\ call.input[2] = 70
    /\ call.result.parsed.key.source = "hex"
    /\ call.result.parsed.key.bytes[32] = 175

\* the code of the first check of the module that the invocation m fails, 0
\* if it fails none
FirstFailure(m) ==
    IF m.instruction_data # <<>> THEN 1
    ELSE IF ~m.wellformed THEN 4
    ELSE IF m.version # 1 THEN 2
    ELSE IF m.lookback_len # Len(m.ohlcv) THEN 3
    ELSE IF ~m.policy.ok THEN 5
    ELSE IF SchemaViolation(m.policy.value) THEN 6
    ELSE 0

\* the 20 bytes of the hold record with err_code code (code < 256)
HoldBytes(code) ==
    <<1, 0, 0, 0, 0, 0, 0, 0, 0, 0, code, 0, 0, 0, 0, 0, 0, 0, 0, 0>>

\* C19: the module leaves in its output region the hold record whose err_code
\* is that of the first failing check in the order payload (1), input decoding
\* (4), input version (2), bar count (3), policy failure (5), policy output
\* (6), whatever later checks would also fail; when no check fails it leaves
\* the policy's record with the reserved bytes zeroed.
C19_ModulePrecedence ==
    Done("process_instruction") =>
        LET m == call.input
        IN  /\ FirstFailure(m) # 0 => call.result = HoldBytes(FirstFailure(m))
            /\ FirstFailure(m) = 0 =>
                  call.result = EncodeOutput([m.policy.value EXCEPT
                                                 !.reserved = <<0, 0, 0, 0, 0, 0, 0, 0>>])

\* an input that cannot be decoded arrived with an empty payload, a failing
\* policy behind it
C19_Witness ==
    /\ Done("process_instruction")
    /\ call.input.instruction_data = <<>>
    /\ ~call.input.wellformed
    /\ call.input.version = 2
    /\ ~call.input.policy.ok
    /\ call.result[11] = 4

\* C20: the module's validate_output and the host's replace a record by
\* hold(6) under the same condition (version # 1, or buy/sell with
\* order_qty <= 0); otherwise the host returns the record as it is and the
\* module returns it with the reserved bytes zeroed; the host returns every
\* record the module's validate_output emits unchanged.
C20_ValidatorsAgree ==
    Done("validate_output") =>
        LET r == call.input
            hold6 == [version |-> 1, action_type |-> 0, order_qty |-> 0, err_code |-> 6,
                      reserved |-> <<0, 0, 0, 0, 0, 0, 0, 0>>]
        IN  /\ SchemaViolation(r) => (call.result.host = hold6 /\ call.result.module = hold6)
            /\ ~SchemaViolation(r) =>
                  /\ call.result.host = r
                  /\ call.result.module = [r EXCEPT !.reserved = <<0, 0, 0, 0, 0, 0, 0, 0>>]
            /\ call.result.host_of_module = call.result.module
            /\ call.result.module =
                  [call.result.host EXCEPT !.reserved = <<0, 0, 0, 0, 0, 0, 0, 0>>]

\* a valid buy with non-zero reserved bytes passed both validators
C20_Witness ==
    /\ Done("validate_output")
    /\ call.input.version = 1
    /\ call.input.action_type = 1
    /\ call.input.order_qty = 1
    /\ call.input.reserved = <<1, 2, 3, 4, 5, 6, 7, 8>>
    /\ call.result.host # call.result.module

\* the last position at which the list names the agent id
LastOf(programs, id) ==
    CHOOSE i \in DOMAIN programs :
        /\ programs[i].id = id
        /\ \A j \in DOMAIN programs : programs[j].id = id => j <= i

\* the list names some agent id more than once
Duplicates(programs) ==
    \E i \in DOMAIN programs, j \in DOMAIN programs : i < j /\ programs[i].id = programs[j].id

\* C21: an init that names an agent id more than once, every artifact
\* loadable, is answered ok; the registry holds one entry per distinct id, at
\* the address of the id's last occurrence (the key of its keypair file, a key
\* made by new_unique otherwise), where the artifact of that last occurrence
\* is loaded; an eval that runs a module runs the artifact loaded at the
\* address the registry holds for its agent, in regions owned by that address.
C21_LastRegistrationWins ==
    /\ (Handled("init") /\ Duplicates(last.line.programs) /\ ~LoadFails
           /\ last.response.type # "ok") =>
          last.response.message = <<"io error", "create_dir_all">>
    /\ (Handled("init") /\ last.response.type = "ok") =>
          /\ DOMAIN state.programs = {last.line.programs[i].id : i \in DOMAIN last.line.programs}
          /\ \A id \in DOMAIN state.programs :
                LET p == last.line.programs[LastOf(last.line.programs, id)]
                    address == state.programs[id].id
                IN  /\ state.context.programs[address] = p.so_path
                    /\ IF p.so_path = "hold.so" THEN address = 1001
                       ELSE address \in 1..(next_unique - 1)
    /\ (Registered /\ last.trace.invoked # NoStr) =>
          /\ last.trace.invoked =
                last.pre.context.programs[last.pre.programs[last.line.agent_id].id]
          /\ \A a \in last.trace.allocated :
                state.context.accounts[a].owner = last.pre.programs[last.line.agent_id].id

\* agent "A" was listed with the template and then with another artifact, and
\* the registry holds the other artifact at a key made by new_unique
C21_Witness ==
    /\ Handled("init")
    /\ last.response.type = "ok"
    /\ Len(last.line.programs) = 2
    /\ last.line.programs[1] = [id |-> "A", so_path |-> "hold.so"]
    /\ last.line.programs[2] = [id |-> "A", so_path |-> "rogue.so"]
    /\ DOMAIN state.programs = {"A"}
    /\ state.programs["A"].id # 1001
    /\ state.context.programs[state.programs["A"].id] = "rogue.so"

\* the last eval got past the registry lookup and convert_input
Executing == Registered /\ last.trace.stage \notin {"none", "lookup", "convert"}

\* length of the serialized EvalInputV1: 91 bytes and 40 per bar
SerializedLen(input) == 91 + 40 * Len(input.ohlcv)

\* C22: every eval that gets past the lookup allocates exactly two regions,
\* at two different addresses that no account set earlier in the session and
\* no loaded program has: an input region as long as the serialized input and
\* an output region of 20 zero bytes, both owned by the module's address;
\* the regions stay in the context whatever the outcome (a failed submission
\* included), the earlier accounts are untouched, and the key counter has
\* moved past both addresses.
C22_FreshRegions ==
    Executing =>
        LET owner == last.pre.programs[last.line.agent_id].id
            before == last.pre.context.accounts
            after == state.context.accounts
            new == last.trace.allocated
        IN  /\ Cardinality(new) = 2
            /\ new \cap DOMAIN before = {}
            /\ new \cap DOMAIN last.pre.context.programs = {}
            /\ DOMAIN last.trace.regions = new
            /\ DOMAIN after = DOMAIN before \cup new
            /\ \A a \in DOMAIN before : after[a] = before[a]
            /\ \A a \in new : a < next_unique /\ after[a].owner = owner
                              /\ last.trace.regions[a].owner = owner
                              /\ after[a].space = last.trace.regions[a].space
            /\ \E i \in new, o \in new :
                  /\ i # o
                  /\ last.trace.regions[i].space = SerializedLen(last.line.input)
                  /\ last.trace.regions[i].data.len = SerializedLen(last.line.input)
                  /\ last.trace.regions[o].space = 20
                  /\ last.trace.regions[o].data =
                        <<0, 0, 0, 0, 0, 0, 0, 0, 0, 0, 0, 0, 0, 0, 0, 0, 0, 0, 0, 0>>

\* an eval failed at submission in a session whose context already held the
\* two regions of an earlier eval, and left its own two regions behind
C22_Witness ==
    /\ Executing
    /\ last.trace.stage = "submit"
    /\ Cardinality(DOMAIN last.pre.context.accounts) = 2
    /\ Cardinality(DOMAIN state.context.accounts) = 4

====
